---- MODULE Spec2Model ----
(***************************************************************************)
(* Pokemon-Card-Expositor: the DMA image manager (buffer allocation and    *)
(* the fixed-size / streamed transfer loops), the image browser and the    *)
(* slideshow scheduler of the system manager, as state machines.           *)
(***************************************************************************)
EXTENDS Integers, Sequences, FiniteSets, TLC

(***************************************************************************)
(* Program constants                                                       *)
(***************************************************************************)
SCREEN_WIDTH == 1024
SCREEN_HEIGHT == 600
FIXED_IMAGE_WIDTH == 1024
FIXED_IMAGE_HEIGHT == 600
FIXED_IMAGE_SIZE == FIXED_IMAGE_WIDTH * FIXED_IMAGE_HEIGHT * 2
FULL_FRAME_BYTES == SCREEN_WIDTH * SCREEN_HEIGHT * 2
ROW_BYTES == SCREEN_WIDTH * 2
MIN_BUFFER_BYTES == SCREEN_WIDTH * 10 * 2
FALLBACK_BUFFER_BYTES == SCREEN_WIDTH * 50 * 2
MAX_FILE_BYTES == 10 * 1024 * 1024
CPU_BUFFER_SIZE == 4096
TIMEOUT_MS == 30000
DMA_YIELD_BYTES == 64 * 1024
CPU_YIELD_BYTES == 32 * 1024
W16 == 65536

(***************************************************************************)
(* Bounds of the model and the inputs the environment draws from           *)
(***************************************************************************)
MaxShortReads == 3
ShortReadWindow == 3
MaxUptime == 30001
ShortReadLens == {1000}
ReadDelays == {30001}
ClockStarts == {[hi |-> W16 - 1, lo |-> W16 - 2000]}
SpiramFree == {0, 200000, 8388608}
InternalFree == {40000, 300000}
FileSizes == {40960, 1000000, FIXED_IMAGE_SIZE, FIXED_IMAGE_SIZE + 61440,
              MAX_FILE_BYTES + 1}
Intervals == {1000, 3000}
MaxEntries == 3
MaxTickUptime == 3000
TickDelays == {3000}

\* file names, as sequences of character codes
Name_a_raw == <<97, 46, 114, 97, 119>>
Name_B_raw == <<66, 46, 114, 97, 119>>
Name_c_PNG == <<99, 46, 80, 78, 71>>
Name_d_txt == <<100, 46, 116, 120, 116>>
Name_e_raw == <<101, 46, 114, 97, 119>>
DirEntries ==
    {[name |-> Name_a_raw, dir |-> FALSE], [name |-> Name_B_raw, dir |-> FALSE],
     [name |-> Name_c_PNG, dir |-> FALSE], [name |-> Name_d_txt, dir |-> FALSE],
     [name |-> Name_e_raw, dir |-> TRUE]}

\* directory enumerations: up to MaxEntries distinct entries in any order
Listings ==
    UNION {{l \in [1..n -> DirEntries] :
               \A i, j \in 1..n : i # j => l[i] # l[j]} : n \in 0..MaxEntries}

\* setDefaultConfigs
DefaultConfig ==
    [enabled |-> FALSE, intervalMs |-> 10000, randomOrder |-> FALSE,
     loop |-> TRUE, autoStart |-> FALSE]
InitialConfigs == {DefaultConfig}

\* configurations a save request can set
Configs ==
    [enabled : BOOLEAN, intervalMs : Intervals, randomOrder : BOOLEAN,
     loop : BOOLEAN, autoStart : {FALSE}]

\* configurations found in the stored configuration file
StoredConfigs ==
    {[enabled |-> TRUE, intervalMs |-> 1000, randomOrder |-> FALSE,
      loop |-> FALSE, autoStart |-> TRUE],
     [enabled |-> FALSE, intervalMs |-> 3000, randomOrder |-> TRUE,
      loop |-> TRUE, autoStart |-> TRUE]}

\* outcomes of the hardware initializations offered to the slideshow
SlideInitOutcomes == {TRUE}

\* directory enumerations offered to the system manager
SlideListings ==
    {<<>>,
     <<[name |-> Name_a_raw, dir |-> FALSE]>>,
     <<[name |-> Name_B_raw, dir |-> FALSE], [name |-> Name_a_raw, dir |-> FALSE],
       [name |-> Name_c_PNG, dir |-> FALSE]>>}

Min(a, b) == IF a <= b THEN a ELSE b
Max(a, b) == IF a >= b THEN a ELSE b
U16(x) == (x + W16) % W16

\* unsigned long (32 bit) as two 16-bit halves: the value is hi * 2^16 + lo
U32Add(t, d) ==
    LET lo == t.lo + d
    IN  [hi |-> (t.hi + (lo \div W16)) % W16, lo |-> lo % W16]

\* a - b in unsigned 32-bit arithmetic
\* mutant: a difference that stops at zero instead of wrapping
U32SubSaturating(a, b) ==
    IF a.hi < b.hi \/ (a.hi = b.hi /\ a.lo < b.lo)
    THEN [hi |-> 0, lo |-> 0]
    ELSE LET lo == a.lo - b.lo
             borrow == IF lo < 0 THEN 1 ELSE 0
         IN  [hi |-> (a.hi - b.hi - borrow + W16) % W16, lo |-> (lo + W16) % W16]

U32Sub(a, b) ==
    LET lo == a.lo - b.lo
        borrow == IF lo < 0 THEN 1 ELSE 0
    IN  [hi |-> (a.hi - b.hi - borrow + W16) % W16, lo |-> (lo + W16) % W16]

\* t > n and t >= n for a 32-bit t and a constant n below 2^31
U32Gt(t, n) == IF t.hi >= W16 \div 2 THEN TRUE ELSE t.hi * W16 + t.lo > n
U32Ge(t, n) == IF t.hi >= W16 \div 2 THEN TRUE ELSE t.hi * W16 + t.lo >= n

\* the value of a 32-bit t, capped at 2^31 - 1
U32Val(t) == IF t.hi >= W16 \div 2 THEN 2147483647 ELSE t.hi * W16 + t.lo

NoBlit == [x |-> 0, y |-> 0, w |-> 0, h |-> 0]

\* the value of lastScan when the operation made no scan
NoScan == [ran |-> FALSE, listing |-> <<>>, imagesDirOk |-> FALSE,
           rootOk |-> FALSE, visited |-> 0, warned |-> FALSE]

VARIABLES
    initialized,      \* DMAImageManager::initialized
    dmaEnabled,       \* DMAImageManager::dmaEnabled
    dmaBuffer,        \* DMAImageManager::dmaBuffer: "NULL" or the tier holding it
    dmaBufferSize,    \* DMAImageManager::dmaBufferSize
    heapBlock,        \* size of the heap block dmaBuffer points to, 0 if none
    allocLog,         \* heap_caps_malloc calls of the operation
    pc,               \* position of the single thread of control
    call,             \* the operation last entered
    result,           \* the value it returned (FALSE while it runs or if void)
    exitReason,       \* the return / break statement it left by
    fileSize,         \* imageFile.size()
    filePos,          \* read position of imageFile
    fileOpen,         \* imageFile is open
    scratch,          \* the 4 KiB CPU buffer is allocated
    totalBytesRead,   \* totalBytesRead / totalTransferred
    currentIteration, \* displayRAWRGB565DMA: currentIteration
    maxIterations,    \* displayRAWRGB565DMA: maxIterations
    startTime,        \* startTime of the CPU fallback loop
    reads,            \* imageFile.read calls of the operation
    blits,            \* drawBitmap calls of the operation
    yields,           \* yield() calls of the operation
    lastYieldAt,      \* bytes transferred when yield() was last called
    lastBlit,         \* rectangle of the last drawBitmap call
    coveredRows,      \* rows 0..coveredRows-1 were painted; -1 after a gap
    shortReads,       \* short reads delivered to the operation
    clock,            \* millis(), 32 bit
    uptime,           \* milliseconds elapsed since the model started
    imageList,        \* ImageBrowser::imageList
    currentIndex,     \* ImageBrowser::currentIndex
    browserInitialized, \* ImageBrowser::initialized
    sdInitialized,    \* SDManager::initialized
    lcdInitialized,   \* LCDManager::initialized
    systemInitialized, \* SystemManager::systemInitialized
    slideshowActive,  \* SystemManager::slideshowActive
    lastSlideshowUpdate, \* SystemManager::lastSlideshowUpdate
    currentImageIndex, \* SystemManager::currentImageIndex
    slideshowConfig,  \* WiFiConfigManager::slideshowConfig
    currentTime,      \* updateSlideshow: currentTime
    advances,         \* cursor moves made by the operation
    intervalsElapsed, \* whole intervals that had elapsed when the tick fired
    displayRequest,   \* path handed to displayImage by the operation
    lastScan,         \* the directory enumeration the operation's scan saw
    failedRequest     \* path of the display call that failed just before this one

dmaVars == <<initialized, dmaEnabled, dmaBuffer, dmaBufferSize, heapBlock>>
fileVars == <<fileSize, filePos, fileOpen, scratch>>
loopVars == <<totalBytesRead, currentIteration, maxIterations, startTime>>
traceVars == <<reads, blits, yields, lastYieldAt, lastBlit, coveredRows, shortReads,
               allocLog>>
timeVars == <<clock, uptime>>
browserVars == <<imageList, currentIndex, browserInitialized>>
sysVars == <<sdInitialized, lcdInitialized, systemInitialized, slideshowActive,
             lastSlideshowUpdate, currentImageIndex>>
uiTrace == <<currentTime, advances, intervalsElapsed, displayRequest,
             lastScan, failedRequest>>
uiVars == <<browserVars, sysVars, slideshowConfig, uiTrace>>
vars == <<dmaVars, pc, call, result, exitReason, fileVars, loopVars,
          traceVars, timeVars, uiVars>>

(***************************************************************************)
(* Buffer allocation                                                       *)
(***************************************************************************)
\* availableRAM: PSRAM if any is free, else internal SRAM
AvailableRAM(spiram, internal) == IF spiram = 0 THEN internal ELSE spiram

\* mutant: half of the available RAM is requested
TargetBufferSizeHalf(avail) ==
    Max(Min(FULL_FRAME_BYTES, avail \div 2), MIN_BUFFER_BYTES)

\* min(full frame, available / 4), at least 10 lines
TargetBufferSize(avail) ==
    Max(Min(FULL_FRAME_BYTES, avail \div 4), MIN_BUFFER_BYTES)

\* heap_caps_malloc can succeed only if the tier has that much free
MallocFeasible(size, free, ok) == ok => size <= free

\* mutant: the last-resort size is tried before the 50-line fallback
AllocAttemptsSwapped(target, ok1, ok2, ok3) ==
    LET a1 == [tier |-> "SPIRAM", size |-> target, ok |-> ok1]
        a2 == [tier |-> "INTERNAL", size |-> MIN_BUFFER_BYTES, ok |-> ok3]
        a3 == [tier |-> "INTERNAL", size |-> FALLBACK_BUFFER_BYTES, ok |-> ok2]
    IN  IF ok1 THEN <<a1>>
        ELSE IF ok3 THEN <<a1, a2>>
        ELSE <<a1, a2, a3>>

\* the heap_caps_malloc calls of allocateDMABuffer, in call order
AllocAttempts(target, ok1, ok2, ok3) ==
    LET a1 == [tier |-> "SPIRAM", size |-> target, ok |-> ok1]
        a2 == [tier |-> "INTERNAL", size |-> FALLBACK_BUFFER_BYTES, ok |-> ok2]
        a3 == [tier |-> "INTERNAL", size |-> MIN_BUFFER_BYTES, ok |-> ok3]
    IN  IF ok1 THEN <<a1>>
        ELSE IF ok2 THEN <<a1, a2>>
        ELSE <<a1, a2, a3>>

\* mutant: dmaBufferSize keeps the size computed before the fallbacks
AllocatedSizeStale(target, a) == target

\* dmaBufferSize after allocateDMABuffer succeeded with attempt a
AllocatedSize(target, a) == a.size

\* mutant: enableDMA allocates again when DMA is already enabled
EnableDMABodyAgain(spiram, internal, ok1, ok2, ok3) ==
    LET target == TargetBufferSize(AvailableRAM(spiram, internal))
        log == AllocAttempts(target, ok1, ok2, ok3)
        last == log[Len(log)]
    IN  /\ allocLog' = log
        /\ dmaBuffer' = IF last.ok THEN last.tier ELSE "NULL"
        /\ heapBlock' = IF last.ok THEN last.size ELSE 0
        /\ dmaBufferSize' = IF last.ok THEN AllocatedSize(target, last) ELSE target
        /\ dmaEnabled' = last.ok

\* enableDMA, with allocateDMABuffer inlined; the value returned is dmaEnabled'
EnableDMABody(spiram, internal, ok1, ok2, ok3) ==
    IF dmaEnabled
    THEN /\ allocLog' = <<>>
         /\ UNCHANGED <<dmaEnabled, dmaBuffer, dmaBufferSize, heapBlock>>
    ELSE LET target == TargetBufferSize(AvailableRAM(spiram, internal))
             log == AllocAttempts(target, ok1, ok2, ok3)
             last == log[Len(log)]
         IN  /\ allocLog' = log
             /\ IF last.ok
                THEN /\ dmaBuffer' = last.tier
                     /\ heapBlock' = last.size
                     /\ dmaBufferSize' = AllocatedSize(target, last)
                     /\ dmaEnabled' = TRUE
                ELSE /\ dmaBuffer' = "NULL"
                     /\ heapBlock' = 0
                     /\ dmaBufferSize' = target
                     /\ dmaEnabled' = FALSE

HeapInputs(spiram, internal, ok1, ok2, ok3) ==
    /\ MallocFeasible(TargetBufferSize(AvailableRAM(spiram, internal)), spiram, ok1)
    /\ MallocFeasible(FALLBACK_BUFFER_BYTES, internal, ok2)
    /\ MallocFeasible(MIN_BUFFER_BYTES, internal, ok3)

\* the operation trace is restarted by every operation
ResetTrace ==
    /\ reads' = 0
    /\ blits' = 0
    /\ yields' = 0
    /\ lastYieldAt' = 0
    /\ lastBlit' = NoBlit
    /\ coveredRows' = 0
    /\ shortReads' = 0

\* a File object and the loop counters live only inside a display call
NoLocals ==
    /\ fileSize' = 0
    /\ filePos' = 0
    /\ totalBytesRead' = 0
    /\ currentIteration' = 0
    /\ maxIterations' = 0
    /\ startTime' = [hi |-> 0, lo |-> 0]

Returns(op, value, reason) ==
    /\ pc' = "idle"
    /\ call' = op
    /\ result' = value
    /\ exitReason' = reason

ManagerOpFrame ==
    /\ ResetTrace
    /\ NoLocals
    /\ UNCHANGED <<fileOpen, scratch, timeVars, uiVars>>

\* DMAImageManager::init
InitManager ==
    /\ pc = "idle"
    /\ initialized' = TRUE
    /\ allocLog' = <<>>
    /\ UNCHANGED <<dmaEnabled, dmaBuffer, dmaBufferSize, heapBlock>>
    /\ Returns("init", TRUE, "return")
    /\ ManagerOpFrame

\* DMAImageManager::freeDMAResources
FreeDMAResources ==
    /\ dmaBuffer' = "NULL"
    /\ heapBlock' = 0
    /\ dmaBufferSize' = 0
    /\ dmaEnabled' = FALSE

\* DMAImageManager::deinit
Deinit ==
    /\ pc = "idle"
    /\ FreeDMAResources
    /\ initialized' = FALSE
    /\ allocLog' = <<>>
    /\ Returns("deinit", FALSE, "return")
    /\ ManagerOpFrame

\* DMAImageManager::disableDMA
DisableDMA ==
    /\ pc = "idle"
    /\ FreeDMAResources
    /\ UNCHANGED initialized
    /\ allocLog' = <<>>
    /\ Returns("disableDMA", FALSE, "return")
    /\ ManagerOpFrame

\* DMAImageManager::enableDMA
EnableDMA(spiram, internal, ok1, ok2, ok3) ==
    /\ pc = "idle"
    /\ HeapInputs(spiram, internal, ok1, ok2, ok3)
    /\ EnableDMABody(spiram, internal, ok1, ok2, ok3)
    /\ UNCHANGED initialized
    /\ Returns("enableDMA", dmaEnabled', "return")
    /\ ManagerOpFrame

\* mutant: a failed enableDMA is reported as a failed initialization
InitWithDMAResultStrict(enabled) == enabled

\* return value of initWithDMA: true with and without a DMA buffer
InitWithDMAResult(enabled) == TRUE

\* DMAImageManager::initWithDMA: init, then enableDMA
InitWithDMA(spiram, internal, ok1, ok2, ok3) ==
    /\ pc = "idle"
    /\ HeapInputs(spiram, internal, ok1, ok2, ok3)
    /\ initialized' = TRUE
    /\ EnableDMABody(spiram, internal, ok1, ok2, ok3)
    /\ Returns("initWithDMA", InitWithDMAResult(dmaEnabled'),
               IF dmaEnabled' THEN "dma" ELSE "cpu_fallback")
    /\ ManagerOpFrame

(***************************************************************************)
(* Storage reads and the clock                                             *)
(***************************************************************************)
\* imageFile.read(buf, n) with avail bytes left: 0 (end of file or a failed
\* read), everything asked for, or a short read
ReadResults(n, avail) ==
    LET full == Min(n, avail)
    IN  {0, full} \cup
        (IF shortReads < MaxShortReads /\ reads < ShortReadWindow
         THEN {s \in ShortReadLens : s < full}
         ELSE {})

IsShortRead(r, n, avail) == 0 < r /\ r < Min(n, avail)

\* time passes: millis() advances and wraps at 2^32
Elapse(dt) ==
    /\ uptime + dt <= MaxUptime
    /\ clock' = U32Add(clock, dt)
    /\ uptime' = uptime + dt
    /\ UNCHANGED <<dmaVars, pc, call, result, exitReason, fileVars, loopVars,
                   traceVars, uiVars>>

(***************************************************************************)
(* displayFixedSizeImageDMA                                                *)
(***************************************************************************)
\* mutant: only the 10 MB limit is checked
FixedSizeCheckNoMismatch(size) ==
    IF size > MAX_FILE_BYTES THEN "too_large" ELSE "ok"

\* the two size checks made after the file is opened
FixedSizeCheck(size) ==
    IF size > MAX_FILE_BYTES THEN "too_large"
    ELSE IF size # FIXED_IMAGE_SIZE THEN "size_mismatch"
    ELSE "ok"

\* mutant: the loop stops one scratch buffer short of the frame
FixedLoopStopsEarly(total) == total + CPU_BUFFER_SIZE < FIXED_IMAGE_SIZE

\* while (totalBytesRead < fixedImageSize)
FixedLoopContinues(total) == total < FIXED_IMAGE_SIZE

\* the value of the return statement that ends both transfer loops
FixedReturnValue(total) == TRUE

FullFrameBlit ==
    [x |-> 0, y |-> 0, w |-> FIXED_IMAGE_WIDTH, h |-> FIXED_IMAGE_HEIGHT]

\* a return before either loop is entered; the file, if opened, is closed
FixedEarlyReturn(size, reason) ==
    /\ Returns("fixed", FALSE, reason)
    /\ fileSize' = size
    /\ filePos' = 0
    /\ fileOpen' = FALSE
    /\ startTime' = [hi |-> 0, lo |-> 0]
    /\ UNCHANGED scratch

\* displayFixedSizeImageDMA from its entry up to the first loop test
DisplayFixedBody(size, pathOk, openOk, lcdOk, mallocOk) ==
    /\ ResetTrace
    /\ allocLog' = <<>>
    /\ totalBytesRead' = 0
    /\ currentIteration' = 0
    /\ maxIterations' = 0
    /\ UNCHANGED <<dmaVars, timeVars>>
    /\ IF ~initialized THEN FixedEarlyReturn(size, "not_initialized")
       ELSE IF ~pathOk THEN FixedEarlyReturn(size, "invalid_path")
       ELSE IF ~openOk THEN FixedEarlyReturn(size, "open_failed")
       ELSE IF FixedSizeCheck(size) # "ok"
            THEN FixedEarlyReturn(size, FixedSizeCheck(size))
       ELSE IF ~lcdOk THEN FixedEarlyReturn(size, "no_lcd")
       ELSE IF dmaEnabled /\ dmaBuffer # "NULL"
            THEN /\ pc' = "fixed_dma"
                 /\ call' = "fixed"
                 /\ result' = FALSE
                 /\ exitReason' = "none"
                 /\ fileSize' = size
                 /\ filePos' = 0
                 /\ fileOpen' = TRUE
                 /\ startTime' = clock
                 /\ UNCHANGED scratch
       ELSE IF ~mallocOk THEN FixedEarlyReturn(size, "no_cpu_buffer")
       ELSE /\ pc' = "fixed_cpu"
            /\ call' = "fixed"
            /\ result' = FALSE
            /\ exitReason' = "none"
            /\ fileSize' = size
            /\ filePos' = 0
            /\ fileOpen' = TRUE
            /\ scratch' = TRUE
            /\ startTime' = clock

\* a call of displayFixedSizeImageDMA
DisplayFixedBegin(size, pathOk, openOk, lcdOk, mallocOk) ==
    /\ pc = "idle"
    /\ DisplayFixedBody(size, pathOk, openOk, lcdOk, mallocOk)
    /\ UNCHANGED uiVars

\* mutant: the return after a loop forgets the file and the scratch buffer
FixedFinishLeaks(total, reason) ==
    /\ Returns("fixed", FixedReturnValue(total), reason)
    /\ UNCHANGED <<fileOpen, scratch>>

\* leaving a transfer loop: free the scratch buffer, close the file, return
FixedFinish(total, reason) ==
    /\ Returns("fixed", FixedReturnValue(total), reason)
    /\ fileOpen' = FALSE
    /\ scratch' = FALSE

\* one iteration of the buffered loop
FixedDMAStep ==
    /\ pc = "fixed_dma"
    /\ LET bytesToRead == Min(dmaBufferSize, FIXED_IMAGE_SIZE)
           chunkSize == Min(bytesToRead, FIXED_IMAGE_SIZE - totalBytesRead)
       IN  \E r \in ReadResults(chunkSize, fileSize - filePos) :
           LET total == totalBytesRead + r IN
           /\ reads' = reads + 1
           /\ filePos' = filePos + r
           /\ shortReads' = IF IsShortRead(r, chunkSize, fileSize - filePos)
                            THEN shortReads + 1 ELSE shortReads
           /\ IF r = 0
              THEN /\ FixedFinish(totalBytesRead, "zero_read")
                   /\ UNCHANGED <<blits, lastBlit, coveredRows, yields, lastYieldAt,
                                       totalBytesRead>>
              ELSE /\ blits' = blits + 1
                   /\ lastBlit' = FullFrameBlit /\ coveredRows' = FIXED_IMAGE_HEIGHT
                   /\ totalBytesRead' = total
                   /\ yields' = IF total % DMA_YIELD_BYTES = 0
                                THEN yields + 1 ELSE yields
                   /\ lastYieldAt' = IF total % DMA_YIELD_BYTES = 0
                                     THEN total ELSE lastYieldAt
                   /\ IF FixedLoopContinues(total)
                      THEN UNCHANGED <<pc, call, result, exitReason,
                                       fileOpen, scratch>>
                      ELSE FixedFinish(total, "complete")
    /\ UNCHANGED <<dmaVars, fileSize, currentIteration, maxIterations,
                   startTime, timeVars, allocLog, uiVars>>

\* mutant: the timeout test fires on every iteration
TimedOutAtOnce(now, start) == TRUE

\* millis() - startTime > TIMEOUT_MS
TimedOut(now, start) == U32Gt(U32Sub(now, start), TIMEOUT_MS)

\* one iteration of the unbuffered (4 KiB scratch buffer) loop
FixedCPUStep ==
    /\ pc = "fixed_cpu"
    /\ UNCHANGED <<dmaVars, fileSize, currentIteration, maxIterations,
                   startTime, timeVars, allocLog, uiVars>>
    /\ IF TimedOut(clock, startTime)
       THEN /\ FixedFinish(totalBytesRead, "timeout")
            /\ UNCHANGED <<reads, blits, lastBlit, coveredRows, yields, lastYieldAt, shortReads,
                           totalBytesRead, filePos>>
       ELSE \E r \in ReadResults(CPU_BUFFER_SIZE, fileSize - filePos) :
            LET clamped == IF totalBytesRead + r > FIXED_IMAGE_SIZE
                           THEN FIXED_IMAGE_SIZE - totalBytesRead ELSE r
                total == totalBytesRead + clamped
            IN  /\ reads' = reads + 1
                /\ filePos' = filePos + r
                /\ shortReads' =
                      IF IsShortRead(r, CPU_BUFFER_SIZE, fileSize - filePos)
                      THEN shortReads + 1 ELSE shortReads
                /\ IF r = 0
                   THEN /\ FixedFinish(totalBytesRead, "zero_read")
                        /\ UNCHANGED <<blits, lastBlit, coveredRows, yields, lastYieldAt,
                                       totalBytesRead>>
                   ELSE /\ blits' = blits + 1
                        /\ lastBlit' = FullFrameBlit /\ coveredRows' = FIXED_IMAGE_HEIGHT
                        /\ totalBytesRead' = total
                        /\ yields' = IF total % CPU_YIELD_BYTES = 0
                                     THEN yields + 1 ELSE yields
                        /\ lastYieldAt' = IF total % CPU_YIELD_BYTES = 0
                                          THEN total ELSE lastYieldAt
                        /\ IF FixedLoopContinues(total)
                           THEN UNCHANGED <<pc, call, result, exitReason,
                                            fileOpen, scratch>>
                           ELSE FixedFinish(total, "complete")

(***************************************************************************)
(* displayRAWRGB565DMA                                                     *)
(***************************************************************************)
\* uint16_t y = currentPixel / SCREEN_WIDTH
RowOrigin(transferred) == U16((transferred \div 2) \div SCREEN_WIDTH)

\* min((uint16_t)(bytesRead / (SCREEN_WIDTH * 2)), (uint16_t)(SCREEN_HEIGHT - y))
ChunkHeight(bytesRead, y) ==
    Min(U16(bytesRead \div ROW_BYTES), U16(SCREEN_HEIGHT - y))

\* rows painted so far, after transferChunkOptimized paints rows y..y+height-1
PaintRows(covered, y, height) ==
    IF covered = -1 \/ y > covered THEN -1 ELSE Max(covered, y + height)

\* mutant: the loop condition does not test the iteration count
StreamLoopUncapped(totalSize, total, pos, iter, maxIter) ==
    /\ total < totalSize
    /\ totalSize - pos > 0

\* while (totalTransferred < totalSize && available() && currentIteration < maxIterations)
StreamLoopContinues(totalSize, total, pos, iter, maxIter) ==
    /\ total < totalSize
    /\ totalSize - pos > 0
    /\ iter < maxIter

\* return totalTransferred == totalSize
StreamReturnValue(totalSize, total) == total = totalSize

StreamFinish(totalSize, total, reason) ==
    /\ Returns("streamed", StreamReturnValue(totalSize, total), reason)
    /\ fileOpen' = FALSE

StreamExitReason(totalSize, total, iter, maxIter) ==
    IF total = totalSize THEN "complete"
    ELSE IF iter >= maxIter THEN "iteration_limit"
    ELSE "end_of_file"

\* entry of displayRAWRGB565DMA up to the first loop test
DisplayStreamedBegin(size, openOk, lcdOk) ==
    /\ pc = "idle"
    /\ ResetTrace
    /\ allocLog' = <<>>
    /\ totalBytesRead' = 0
    /\ currentIteration' = 0
    /\ fileSize' = size
    /\ filePos' = 0
    /\ startTime' = [hi |-> 0, lo |-> 0]
    /\ UNCHANGED <<dmaVars, scratch, timeVars, uiVars>>
    /\ IF ~dmaEnabled
       THEN /\ Returns("streamed", FALSE, "dma_disabled")
            /\ maxIterations' = 0
            /\ UNCHANGED fileOpen
       ELSE IF ~openOk
       THEN /\ Returns("streamed", FALSE, "open_failed")
            /\ maxIterations' = 0
            /\ UNCHANGED fileOpen
       ELSE IF ~lcdOk
       THEN /\ Returns("streamed", FALSE, "no_lcd")
            /\ maxIterations' = 0
            /\ fileOpen' = FALSE
       ELSE /\ maxIterations' = (size \div dmaBufferSize) + 2
            /\ IF StreamLoopContinues(size, 0, 0, 0, maxIterations')
               THEN /\ pc' = "streamed"
                    /\ call' = "streamed"
                    /\ result' = FALSE
                    /\ exitReason' = "none"
                    /\ fileOpen' = TRUE
               ELSE StreamFinish(size, 0,
                        StreamExitReason(size, 0, 0, maxIterations'))

\* one iteration of the streamed loop
StreamedStep ==
    /\ pc = "streamed"
    /\ UNCHANGED <<dmaVars, fileSize, scratch, maxIterations, startTime,
                   timeVars, allocLog, uiVars>>
    /\ LET remainingBytes == fileSize - totalBytesRead
           chunkSize == Min(dmaBufferSize, remainingBytes)
       IN  \E r \in ReadResults(chunkSize, fileSize - filePos) :
           LET y == RowOrigin(totalBytesRead)
               height == ChunkHeight(r, y)
               total == totalBytesRead + r
               iter == currentIteration + 1
           IN
           /\ reads' = reads + 1
           /\ filePos' = filePos + r
           /\ shortReads' = IF IsShortRead(r, chunkSize, fileSize - filePos)
                            THEN shortReads + 1 ELSE shortReads
           /\ IF r = 0
              THEN /\ StreamFinish(fileSize, totalBytesRead, "zero_read")
                   /\ UNCHANGED <<blits, lastBlit, coveredRows, yields, lastYieldAt, totalBytesRead,
                                  currentIteration>>
              ELSE /\ IF height > 0
                      THEN /\ blits' = blits + 1
                           /\ lastBlit' = [x |-> 0, y |-> y,
                                           w |-> SCREEN_WIDTH, h |-> height]
                           /\ coveredRows' = PaintRows(coveredRows, y, height)
                      ELSE UNCHANGED <<blits, lastBlit, coveredRows>>
                   /\ totalBytesRead' = total
                   /\ currentIteration' = iter
                   /\ yields' = IF height > 20 THEN yields + 1 ELSE yields
                   /\ lastYieldAt' = IF height > 20 THEN total ELSE lastYieldAt
                   /\ IF StreamLoopContinues(fileSize, total, filePos + r, iter,
                                          maxIterations)
                      THEN UNCHANGED <<pc, call, result, exitReason, fileOpen>>
                      ELSE StreamFinish(fileSize, total,
                               StreamExitReason(fileSize, total, iter,
                                                maxIterations))

(***************************************************************************)
(* The DMA image manager as a state machine                                *)
(***************************************************************************)
\* the global objects as their constructors leave them
Init ==
    /\ initialized = FALSE
    /\ dmaEnabled = FALSE
    /\ dmaBuffer = "NULL"
    /\ dmaBufferSize = 0
    /\ heapBlock = 0
    /\ allocLog = <<>>
    /\ pc = "idle"
    /\ call = "none"
    /\ result = FALSE
    /\ exitReason = "none"
    /\ fileSize = 0
    /\ filePos = 0
    /\ fileOpen = FALSE
    /\ scratch = FALSE
    /\ totalBytesRead = 0
    /\ currentIteration = 0
    /\ maxIterations = 0
    /\ startTime = [hi |-> 0, lo |-> 0]
    /\ reads = 0
    /\ blits = 0
    /\ yields = 0
    /\ lastYieldAt = 0
    /\ lastBlit = NoBlit
    /\ coveredRows = 0
    /\ shortReads = 0
    /\ clock \in ClockStarts
    /\ uptime = 0
    /\ imageList = <<>>
    /\ currentIndex = 0
    /\ browserInitialized = FALSE
    /\ sdInitialized = FALSE
    /\ lcdInitialized = FALSE
    /\ systemInitialized = FALSE
    /\ slideshowActive = FALSE
    /\ lastSlideshowUpdate = [hi |-> 0, lo |-> 0]
    /\ currentImageIndex = 0
    /\ slideshowConfig \in InitialConfigs
    /\ currentTime = [hi |-> 0, lo |-> 0]
    /\ advances = 0
    /\ intervalsElapsed = 0
    /\ displayRequest = <<>>
    /\ lastScan = NoScan
    /\ failedRequest = <<>>

NextDMA ==
    \/ InitManager
    \/ Deinit
    \/ DisableDMA
    \/ \E spiram \in SpiramFree, internal \in InternalFree, ok1, ok2, ok3 \in BOOLEAN :
          EnableDMA(spiram, internal, ok1, ok2, ok3)
    \/ \E spiram \in SpiramFree, internal \in InternalFree, ok1, ok2, ok3 \in BOOLEAN :
          InitWithDMA(spiram, internal, ok1, ok2, ok3)
    \/ \E size \in FileSizes, pathOk, openOk, lcdOk, mallocOk \in BOOLEAN :
          DisplayFixedBegin(size, pathOk, openOk, lcdOk, mallocOk)
    \/ FixedDMAStep
    \/ FixedCPUStep
    \/ \E size \in FileSizes, openOk, lcdOk \in BOOLEAN :
          DisplayStreamedBegin(size, openOk, lcdOk)
    \/ StreamedStep
    \/ \E dt \in ReadDelays : pc = "fixed_cpu" /\ Elapse(dt)

SpecDMA == Init /\ [][NextDMA]_vars

\* the transfer loops run on the only thread and are never suspended: an
\* iteration that can run does run
SpecDMALive ==
    /\ SpecDMA
    /\ WF_vars(FixedDMAStep)
    /\ WF_vars(FixedCPUStep)

(***************************************************************************)
(* Properties of the DMA image manager                                     *)
(***************************************************************************)
FixedCallReturned == pc = "idle" /\ call = "fixed"

\* C1: a displayFixedSizeImageDMA call on a file whose size is not
\* 1,228,800 bytes returns false and issues no drawBitmap and no read,
\* with and without a DMA buffer
C1_SizeMismatchNoIO ==
    (call = "fixed" /\ fileSize # FIXED_IMAGE_SIZE) =>
        /\ pc = "idle"
        /\ result = FALSE
        /\ blits = 0
        /\ reads = 0

C1_Witness ==
    /\ FixedCallReturned
    /\ exitReason = "size_mismatch"
    /\ fileSize = 1000000
    /\ dmaEnabled
    /\ result = FALSE

\* C2: whenever displayFixedSizeImageDMA returns true, all 1,228,800 bytes
\* were transferred (a zero-byte read before the end makes it return false)
C2_SuccessMeansComplete ==
    (FixedCallReturned /\ result = TRUE) => totalBytesRead = FIXED_IMAGE_SIZE

\* the preconditions of C3: the manager is initialized, the file opens, the
\* display is available and no read returned 0 bytes
ExactSizeReadable ==
    /\ FixedCallReturned
    /\ fileSize = FIXED_IMAGE_SIZE
    /\ exitReason \notin {"not_initialized", "invalid_path", "open_failed",
                          "no_lcd", "zero_read"}

\* C3 as stated: an exact-size file whose reads never return 0 is displayed
\* with success and transferred = 1,228,800 on both paths
C3_ExactSizeAlwaysSucceeds ==
    ExactSizeReadable =>
        (result = TRUE /\ totalBytesRead = FIXED_IMAGE_SIZE)

\* C3 as amended: the same, provided that on the unbuffered path the 4 KiB
\* scratch buffer was allocated and the call ended within the 30 s timeout
C3_ExactSizeSucceedsInTime ==
    (/\ ExactSizeReadable
     /\ exitReason # "no_cpu_buffer"
     /\ ~U32Gt(U32Sub(clock, startTime), TIMEOUT_MS)) =>
        (result = TRUE /\ totalBytesRead = FIXED_IMAGE_SIZE)

C3_Witness ==
    /\ ExactSizeReadable
    /\ ~dmaEnabled
    /\ shortReads > 0
    /\ exitReason = "complete"
    /\ totalBytesRead = FIXED_IMAGE_SIZE

AllocationRan == call \in {"enableDMA", "initWithDMA"} /\ allocLog # <<>>

\* C7: the allocation steps run in the order external RAM, 50 lines of
\* internal RAM, 10 lines of internal RAM; a step is tried iff every earlier
\* one failed; the allocation fails iff all three failed
C7_OrderedFallback ==
    AllocationRan =>
        /\ Len(allocLog) \in 1..3
        /\ allocLog[1].tier = "SPIRAM"
        /\ Len(allocLog) >= 2 =>
              /\ allocLog[2].tier = "INTERNAL"
              /\ allocLog[2].size = 1024 * 50 * 2
        /\ Len(allocLog) = 3 =>
              /\ allocLog[3].tier = "INTERNAL"
              /\ allocLog[3].size = 1024 * 10 * 2
        /\ \A i \in 1..(Len(allocLog) - 1) : ~allocLog[i].ok
        /\ Len(allocLog) < 3 => allocLog[Len(allocLog)].ok
        /\ dmaEnabled = allocLog[Len(allocLog)].ok
        /\ call = "enableDMA" => result = allocLog[Len(allocLog)].ok

C7_Witness ==
    /\ AllocationRan
    /\ call = "enableDMA"
    /\ Len(allocLog) = 3
    /\ allocLog[3].ok
    /\ result = TRUE

\* C8: while dmaEnabled, dmaBuffer is not null and dmaBufferSize is positive
\* and is the size of the block that was allocated
C8_EnabledBufferValid ==
    dmaEnabled =>
        /\ dmaBuffer # "NULL"
        /\ dmaBufferSize > 0
        /\ dmaBufferSize = heapBlock

C8_Witness ==
    /\ dmaEnabled
    /\ call = "enableDMA"
    /\ Len(allocLog) = 2
    /\ dmaBufferSize = FALLBACK_BUFFER_BYTES

AllAllocationsFailed ==
    /\ AllocationRan
    /\ Len(allocLog) = 3
    /\ ~allocLog[3].ok

\* a fixed-size call made without a DMA buffer on a valid, readable file
DegradedCall ==
    /\ FixedCallReturned
    /\ ~dmaEnabled
    /\ fileSize = FIXED_IMAGE_SIZE
    /\ exitReason \notin {"not_initialized", "invalid_path", "open_failed",
                          "no_lcd", "zero_read"}

\* initWithDMA reports success when every allocation failed, and a call made
\* without a DMA buffer never enters the buffered loop
DegradedModeUsable ==
    /\ (call = "initWithDMA" /\ AllAllocationsFailed) =>
          (result = TRUE /\ initialized /\ ~dmaEnabled /\ dmaBuffer = "NULL")
    /\ pc = "fixed_dma" => (dmaEnabled /\ dmaBuffer # "NULL")
    /\ pc = "fixed_cpu" => (~dmaEnabled /\ scratch)

\* C9 as stated: after all three allocations failed initWithDMA reports
\* success, later calls take the unbuffered path, and a valid, fully
\* readable item is displayed successfully
C9_DegradedAlwaysDisplays ==
    /\ DegradedModeUsable
    /\ DegradedCall => (result = TRUE /\ totalBytesRead = FIXED_IMAGE_SIZE)

\* C9 as amended: the item is displayed successfully provided the 4 KiB
\* scratch buffer can be allocated and the 30 s timeout does not expire
C9_DegradedDisplays ==
    /\ DegradedModeUsable
    /\ (/\ DegradedCall
        /\ exitReason # "no_cpu_buffer"
        /\ ~U32Gt(U32Sub(clock, startTime), TIMEOUT_MS)) =>
           (result = TRUE /\ totalBytesRead = FIXED_IMAGE_SIZE)

C9_Witness ==
    /\ DegradedCall
    /\ initialized
    /\ dmaBuffer = "NULL"
    /\ dmaBufferSize > 0
    /\ result = TRUE
    /\ blits = FIXED_IMAGE_SIZE \div CPU_BUFFER_SIZE
    /\ totalBytesRead = FIXED_IMAGE_SIZE

\* C10: every blit of displayRAWRGB565DMA stays inside the display:
\* y + height <= 600, for every file size and read length
C10_BlitInsideDisplay ==
    (call = "streamed" /\ blits > 0) =>
        lastBlit.y + lastBlit.h <= SCREEN_HEIGHT

\* C11: when displayRAWRGB565DMA returns true for a frame-sized file, the
\* blits it issued painted every row 0..599 from the top without a gap,
\* whatever the capacity of the DMA buffer (every read filling the buffer)
C11_SuccessCoversAllRows ==
    (/\ pc = "idle"
     /\ call = "streamed"
     /\ result = TRUE
     /\ shortReads = 0
     /\ fileSize = FIXED_IMAGE_SIZE) => coveredRows = SCREEN_HEIGHT

(***************************************************************************)
(* ImageBrowser                                                            *)
(***************************************************************************)
MAX_FILES == 5000

\* a directory holding one more entry than a scan visits: MAX_FILES
\* subdirectories d0001, d0002, ... enumerated first, then the file a.raw
SubdirName(i) ==
    <<100, 48 + ((i \div 1000) % 10), 48 + ((i \div 100) % 10),
      48 + ((i \div 10) % 10), 48 + (i % 10)>>
CrowdedListing ==
    [i \in 1..(MAX_FILES + 1) |->
        IF i <= MAX_FILES THEN [name |-> SubdirName(i), dir |-> TRUE]
        ELSE [name |-> Name_a_raw, dir |-> FALSE]]

\* the same directory with two files enumerated before the subdirectories and
\* a PNG as the entry the scan does not reach
CrowdedMixedListing ==
    [i \in 1..(MAX_FILES + 1) |->
        IF i = 1 THEN [name |-> Name_a_raw, dir |-> FALSE]
        ELSE IF i = 2 THEN [name |-> Name_B_raw, dir |-> FALSE]
        ELSE IF i <= MAX_FILES THEN [name |-> SubdirName(i), dir |-> TRUE]
        ELSE [name |-> Name_c_PNG, dir |-> FALSE]]

ImagesPrefix == <<47, 105, 109, 97, 103, 101, 115, 47>>
RootPrefix == <<47>>
ImageExtensions ==
    {<<46, 112, 110, 103>>, <<46, 106, 112, 103>>, <<46, 106, 112, 101, 103>>,
     <<46, 98, 109, 112>>, <<46, 114, 97, 119>>}

\* mutant: the name is compared as it is spelled
ToLowerCaseIdentity(str) == str

\* String::toLowerCase
ToLowerCase(str) ==
    [i \in 1..Len(str) |->
        IF str[i] >= 65 /\ str[i] <= 90 THEN str[i] + 32 ELSE str[i]]

\* String::endsWith
EndsWith(str, suffix) ==
    /\ Len(suffix) <= Len(str)
    /\ SubSeq(str, Len(str) - Len(suffix) + 1, Len(str)) = suffix

\* ImageBrowser::isImageFile
IsImageFile(filename) ==
    \E ext \in ImageExtensions : EndsWith(ToLowerCase(filename), ext)

\* String::operator< : byte-wise comparison, as strcmp
RECURSIVE StrLess(_, _)
StrLess(a, b) ==
    IF b = <<>> THEN FALSE
    ELSE IF a = <<>> THEN TRUE
    ELSE IF a[1] # b[1] THEN a[1] < b[1]
    ELSE StrLess(Tail(a), Tail(b))

\* std::sort(imageList.begin(), imageList.end())
RECURSIVE InsertSorted(_, _)
InsertSorted(x, sorted) ==
    IF sorted = <<>> THEN <<x>>
    ELSE IF StrLess(sorted[1], x) THEN <<sorted[1]>> \o InsertSorted(x, Tail(sorted))
    ELSE <<x>> \o sorted

\* mutant: the list is left in enumeration order
SortListNone(list) == list

RECURSIVE SortList(_)
SortList(list) ==
    IF list = <<>> THEN <<>> ELSE InsertSorted(list[1], SortList(Tail(list)))

\* fileCounter when the while loop of scanSDCard ends
FileCounter(listing, maxFiles) == Min(Len(listing), maxFiles)

\* if (fileCounter >= maxFiles): the warning that the scan may be incomplete
CapWarning(counter, maxFiles) == counter >= maxFiles

\* mutant: the loop does not test fileCounter
CollectImagesUncapped(listing, prefix, maxFiles) ==
    LET IsImage(entry) == ~entry.dir /\ IsImageFile(entry.name)
        found == SelectSeq(listing, IsImage)
    IN  [i \in 1..Len(found) |-> prefix \o found[i].name]

\* the while loop of scanSDCard: the entries visited, filtered and prefixed
CollectImages(listing, prefix, maxFiles) ==
    LET visited == SubSeq(listing, 1, Min(Len(listing), maxFiles))
        IsImage(entry) == ~entry.dir /\ IsImageFile(entry.name)
        found == SelectSeq(visited, IsImage)
    IN  [i \in 1..Len(found) |-> prefix \o found[i].name]

\* currentIndex = hasImages() ? 0 : -1
ScanCursor(list) == IF list # <<>> THEN 0 ELSE -1

\* the index scanSDCard builds from an enumeration of the directory it opened
ScannedList(listing, imagesDirOk) ==
    LET prefix == IF imagesDirOk THEN ImagesPrefix ELSE RootPrefix
    IN  SortList(CollectImages(listing, prefix, MAX_FILES))

\* ImageBrowser::scanSDCard
ScanSDCard(listing, imagesDirOk, rootOk) ==
    /\ lastScan' =
          [ran |-> TRUE, listing |-> listing, imagesDirOk |-> imagesDirOk,
           rootOk |-> rootOk,
           visited |-> IF ~imagesDirOk /\ ~rootOk THEN 0
                       ELSE FileCounter(listing, MAX_FILES),
           warned |-> IF ~imagesDirOk /\ ~rootOk THEN FALSE
                      ELSE CapWarning(FileCounter(listing, MAX_FILES), MAX_FILES)]
    /\ IF ~imagesDirOk /\ ~rootOk
       THEN /\ imageList' = <<>>
            /\ UNCHANGED currentIndex
       ELSE LET list == ScannedList(listing, imagesDirOk)
            IN  /\ imageList' = list
                /\ currentIndex' = ScanCursor(list)

\* what a browser or system operation leaves alone in the image manager
UIFrame ==
    /\ pc = "idle"
    /\ failedRequest' = <<>>
    /\ UNCHANGED <<fileVars, loopVars, traceVars, timeVars>>

BrowserOpFrame ==
    /\ UIFrame
    /\ displayRequest' = <<>>
    /\ intervalsElapsed' = 0
    /\ currentTime' = [hi |-> 0, lo |-> 0]
    /\ UNCHANGED <<dmaVars, sysVars, slideshowConfig>>

\* ImageBrowser::init
BrowserInit(sdExists, listing, imagesDirOk, rootOk) ==
    /\ BrowserOpFrame
    /\ advances' = 0
    /\ IF browserInitialized
       THEN /\ UNCHANGED browserVars
            /\ lastScan' = NoScan
            /\ Returns("browserInit", TRUE, "already")
       ELSE IF ~sdExists
       THEN /\ UNCHANGED browserVars
            /\ lastScan' = NoScan
            /\ Returns("browserInit", FALSE, "no_sd")
       ELSE /\ ScanSDCard(listing, imagesDirOk, rootOk)
            /\ browserInitialized' = (imageList' # <<>>)
            /\ Returns("browserInit", imageList' # <<>>, "scanned")

\* ImageBrowser::deinit
BrowserDeinit ==
    /\ BrowserOpFrame
    /\ advances' = 0
    /\ imageList' = <<>>
    /\ currentIndex' = 0
    /\ browserInitialized' = FALSE
    /\ lastScan' = NoScan
    /\ Returns("browserDeinit", FALSE, "return")

\* ImageBrowser::refreshImageList
RefreshImageList(listing, imagesDirOk, rootOk) ==
    /\ BrowserOpFrame
    /\ advances' = 0
    /\ ScanSDCard(listing, imagesDirOk, rootOk)
    /\ UNCHANGED browserInitialized
    /\ Returns("refreshImageList", FALSE,
               IF ~imagesDirOk /\ ~rootOk THEN "open_failed" ELSE "scanned")

\* mutant: the cursor stops at the last entry
NextIndexSaturating(index, size) == Min(index + 1, size - 1)

\* (currentIndex + 1) % imageList.size()
NextIndex(index, size) == (index + 1) % size

\* mutant: the cursor stops at the first entry
PreviousIndexSaturating(index, size) == Max(index - 1, 0)

\* (currentIndex - 1 + imageList.size()) % imageList.size()
PreviousIndex(index, size) == (index - 1 + size) % size

\* the cursor move of a navigation call that found images
MoveCursor(op, target) ==
    /\ currentIndex' = target
    /\ advances' = 1
    /\ lastScan' = NoScan
    /\ Returns(op, TRUE, "moved")

NoImages(op) ==
    /\ UNCHANGED currentIndex
    /\ lastScan' = NoScan
    /\ advances' = 0
    /\ Returns(op, FALSE, "no_images")

\* ImageBrowser::nextImage
NextImage ==
    /\ BrowserOpFrame
    /\ UNCHANGED <<imageList, browserInitialized>>
    /\ IF imageList = <<>> THEN NoImages("nextImage")
       ELSE MoveCursor("nextImage", NextIndex(currentIndex, Len(imageList)))

\* ImageBrowser::previousImage
PreviousImage ==
    /\ BrowserOpFrame
    /\ UNCHANGED <<imageList, browserInitialized>>
    /\ IF imageList = <<>> THEN NoImages("previousImage")
       ELSE MoveCursor("previousImage",
                       PreviousIndex(currentIndex, Len(imageList)))

\* ImageBrowser::goToFirst
GoToFirst ==
    /\ BrowserOpFrame
    /\ UNCHANGED <<imageList, browserInitialized>>
    /\ IF imageList = <<>> THEN NoImages("goToFirst")
       ELSE MoveCursor("goToFirst", 0)

\* ImageBrowser::goToLast
GoToLast ==
    /\ BrowserOpFrame
    /\ UNCHANGED <<imageList, browserInitialized>>
    /\ IF imageList = <<>> THEN NoImages("goToLast")
       ELSE MoveCursor("goToLast", Len(imageList) - 1)

\* mutant: the range check accepts index = size
IndexInRangeInclusive(index, size) == size > 0 /\ index >= 0 /\ index <= size

\* the range check of goToIndex
IndexInRange(index, size) == size > 0 /\ index >= 0 /\ index < size

\* ImageBrowser::goToIndex
GoToIndex(index) ==
    /\ BrowserOpFrame
    /\ UNCHANGED <<imageList, browserInitialized>>
    /\ IF ~IndexInRange(index, Len(imageList))
       THEN /\ UNCHANGED currentIndex
            /\ advances' = 0
            /\ lastScan' = NoScan
            /\ Returns("goToIndex", FALSE, "out_of_range")
       ELSE MoveCursor("goToIndex", index)

\* what imageList[index] yields for an index outside the vector
OutOfRangeRead == <<0>>

\* imageList[index]
ElementAt(list, index) ==
    IF index >= 0 /\ index < Len(list) THEN list[index + 1] ELSE OutOfRangeRead

\* mutant: only the sign of the cursor is tested
HasSelectionSignOnly(list, index) == index >= 0

\* hasImages() && currentIndex >= 0 && currentIndex < (int)imageList.size()
HasSelection(list, index) == list # <<>> /\ index >= 0 /\ index < Len(list)

\* ImageBrowser::getCurrentImagePath on a given list and cursor
PathAt(list, index) ==
    IF ~HasSelection(list, index) THEN <<>> ELSE ElementAt(list, index)

\* ImageBrowser::getCurrentImagePath
GetCurrentImagePath == PathAt(imageList, currentIndex)

\* SD.open("/") is called only when /images is not an open directory
RootOutcomes(imagesDirOk) == IF imagesDirOk THEN {TRUE} ELSE BOOLEAN

\* a directory is enumerated only by a scan that opened one
EnumerationsRead(scans, imagesDirOk, rootOk, listings) ==
    IF scans /\ (imagesDirOk \/ rootOk) THEN listings ELSE {<<>>}

NextBrowser ==
    \/ \E sdExists, imagesDirOk \in BOOLEAN :
          \E rootOk \in RootOutcomes(imagesDirOk) :
             \E listing \in EnumerationsRead(~browserInitialized /\ sdExists,
                                             imagesDirOk, rootOk, Listings) :
                BrowserInit(sdExists, listing, imagesDirOk, rootOk)
    \/ BrowserDeinit
    \/ \E imagesDirOk \in BOOLEAN :
          \E rootOk \in RootOutcomes(imagesDirOk) :
             \E listing \in EnumerationsRead(TRUE, imagesDirOk, rootOk,
                                             Listings \cup {CrowdedListing, CrowdedMixedListing}) :
                RefreshImageList(listing, imagesDirOk, rootOk)
    \/ NextImage
    \/ PreviousImage
    \/ GoToFirst
    \/ GoToLast
    \/ \E index \in -1..(MaxEntries + 1) : GoToIndex(index)

SpecBrowser == Init /\ [][NextBrowser]_vars

\* C6: currentIndex is -1 or a valid index into imageList in every
\* reachable state of the browser
C6_CursorValid ==
    currentIndex = -1 \/ (0 <= currentIndex /\ currentIndex < Len(imageList))

(***************************************************************************)
(* SystemManager: initialization and the slideshow                         *)
(***************************************************************************)
\* displayCurrentImage and displayImage: the path passed to displayImageDMA,
\* empty when no call is made; the transfer itself is displayFixedSizeImageDMA
DisplayCurrentImage(sysInit, dmaInit, list, index) ==
    IF ~sysInit \/ list = <<>> THEN <<>>
    ELSE IF Len(PathAt(list, index)) > 0 /\ dmaInit THEN PathAt(list, index)
    ELSE <<>>

SysOpFrame ==
    /\ UIFrame
    /\ lastScan' = NoScan
    /\ UNCHANGED <<dmaVars, sdInitialized, lcdInitialized, systemInitialized,
                   imageList, browserInitialized>>

\* SystemManager::nextImage
SysNextImage ==
    /\ SysOpFrame
    /\ intervalsElapsed' = 0
    /\ currentTime' = [hi |-> 0, lo |-> 0]
    /\ UNCHANGED <<slideshowActive, lastSlideshowUpdate, currentImageIndex,
                   slideshowConfig>>
    /\ IF systemInitialized /\ imageList # <<>>
       THEN /\ currentIndex' = NextIndex(currentIndex, Len(imageList))
            /\ advances' = 1
            /\ displayRequest' = DisplayCurrentImage(systemInitialized,
                                     initialized, imageList, currentIndex')
            /\ Returns("sysNextImage", FALSE, "moved")
       ELSE /\ UNCHANGED currentIndex
            /\ advances' = 0
            /\ displayRequest' = <<>>
            /\ Returns("sysNextImage", FALSE, "nothing")

\* SystemManager::previousImage
SysPreviousImage ==
    /\ SysOpFrame
    /\ intervalsElapsed' = 0
    /\ currentTime' = [hi |-> 0, lo |-> 0]
    /\ UNCHANGED <<slideshowActive, lastSlideshowUpdate, currentImageIndex,
                   slideshowConfig>>
    /\ IF systemInitialized /\ imageList # <<>>
       THEN /\ currentIndex' = PreviousIndex(currentIndex, Len(imageList))
            /\ advances' = 1
            /\ displayRequest' = DisplayCurrentImage(systemInitialized,
                                     initialized, imageList, currentIndex')
            /\ Returns("sysPreviousImage", FALSE, "moved")
       ELSE /\ UNCHANGED currentIndex
            /\ advances' = 0
            /\ displayRequest' = <<>>
            /\ Returns("sysPreviousImage", FALSE, "nothing")

SlideOpFrame ==
    /\ SysOpFrame
    /\ advances' = 0
    /\ intervalsElapsed' = 0
    /\ displayRequest' = <<>>
    /\ currentTime' = [hi |-> 0, lo |-> 0]
    /\ UNCHANGED <<currentIndex, currentImageIndex>>

\* SystemManager::startSlideshow
StartSlideshow ==
    /\ SlideOpFrame
    /\ UNCHANGED slideshowConfig
    /\ IF ~slideshowConfig.enabled
       THEN /\ UNCHANGED <<slideshowActive, lastSlideshowUpdate>>
            /\ Returns("startSlideshow", FALSE, "disabled")
       ELSE /\ slideshowActive' = TRUE
            /\ lastSlideshowUpdate' = clock
            /\ Returns("startSlideshow", TRUE, "started")

\* SystemManager::stopSlideshow
StopSlideshow ==
    /\ SlideOpFrame
    /\ UNCHANGED <<slideshowConfig, lastSlideshowUpdate>>
    /\ slideshowActive' = FALSE
    /\ Returns("stopSlideshow", TRUE, "stopped")

\* SystemManager::pauseSlideshow
PauseSlideshow ==
    /\ SlideOpFrame
    /\ UNCHANGED <<slideshowConfig, lastSlideshowUpdate>>
    /\ slideshowActive' = FALSE
    /\ Returns("pauseSlideshow", TRUE, "paused")

\* WiFiConfigManager::startSlideshow: enable, save, then start
WifiStartSlideshow(saveOk) ==
    /\ SlideOpFrame
    /\ slideshowConfig' = [slideshowConfig EXCEPT !.enabled = TRUE]
    /\ IF ~saveOk
       THEN /\ UNCHANGED <<slideshowActive, lastSlideshowUpdate>>
            /\ Returns("wifiStartSlideshow", FALSE, "save_failed")
       ELSE IF ~slideshowConfig'.enabled
       THEN /\ UNCHANGED <<slideshowActive, lastSlideshowUpdate>>
            /\ Returns("wifiStartSlideshow", FALSE, "disabled")
       ELSE /\ slideshowActive' = TRUE
            /\ lastSlideshowUpdate' = clock
            /\ Returns("wifiStartSlideshow", TRUE, "started")

\* WiFiConfigManager::stopSlideshow: disable, save, then stop
WifiStopSlideshow(saveOk) ==
    /\ SlideOpFrame
    /\ slideshowConfig' = [slideshowConfig EXCEPT !.enabled = FALSE]
    /\ UNCHANGED lastSlideshowUpdate
    /\ IF ~saveOk
       THEN /\ UNCHANGED slideshowActive
            /\ Returns("wifiStopSlideshow", FALSE, "save_failed")
       ELSE /\ slideshowActive' = FALSE
            /\ Returns("wifiStopSlideshow", TRUE, "stopped")

\* mutant: saving the configuration restarts the interval
SaveConfigRestarts(cfg) ==
    /\ SlideOpFrame
    /\ slideshowConfig' = cfg
    /\ lastSlideshowUpdate' = clock
    /\ UNCHANGED slideshowActive
    /\ Returns("saveConfig", FALSE, "saved")

\* WiFiConfigManager::handleSaveConfig, the slideshow section
SaveConfig(cfg) ==
    /\ SlideOpFrame
    /\ slideshowConfig' = cfg
    /\ UNCHANGED <<slideshowActive, lastSlideshowUpdate>>
    /\ Returns("saveConfig", FALSE, "saved")

\* mutant: the tick fires only after more than the interval
TickDueStrict(now, last, interval) == U32Gt(U32Sub(now, last), interval)

\* currentTime - lastSlideshowUpdate >= config.intervalMs
TickDue(now, last, interval) == U32Ge(U32Sub(now, last), interval)

\* mutant: one advance for every interval that elapsed
TickAdvanceCatchUp(now, last, interval) == U32Val(U32Sub(now, last)) \div interval

\* the advances one firing tick makes
TickAdvanceCount(now, last, interval) == 1

\* nextImage called n times
RECURSIVE AdvanceTimes(_, _, _)
AdvanceTimes(index, size, n) ==
    IF n = 0 THEN index ELSE AdvanceTimes(NextIndex(index, size), size, n - 1)

\* !config.loop && currentImageIndex >= imageBrowser.getImageCount() - 1
ShouldStop(cfgLoop, imageIndex, count) == ~cfgLoop /\ imageIndex >= count - 1

\* mutant: the tick runs whatever the mode
TickRunsAlways(active) == TRUE

\* if (!slideshowActive) return;
TickRuns(active) == active

\* SystemManager::updateSlideshow
UpdateSlideshow ==
    /\ SysOpFrame
    /\ UNCHANGED slideshowConfig
    /\ IF ~TickRuns(slideshowActive)
       THEN /\ UNCHANGED <<slideshowActive, lastSlideshowUpdate, currentIndex,
                           currentImageIndex>>
            /\ currentTime' = [hi |-> 0, lo |-> 0]
            /\ advances' = 0
            /\ intervalsElapsed' = 0
            /\ displayRequest' = <<>>
            /\ Returns("updateSlideshow", FALSE, "inactive")
       ELSE IF ~TickDue(clock, lastSlideshowUpdate, slideshowConfig.intervalMs)
       THEN /\ currentTime' = clock
            /\ UNCHANGED <<slideshowActive, lastSlideshowUpdate, currentIndex,
                           currentImageIndex>>
            /\ advances' = 0
            /\ intervalsElapsed' = 0
            /\ displayRequest' = <<>>
            /\ Returns("updateSlideshow", FALSE, "not_due")
       ELSE LET count == Len(imageList)
                n == TickAdvanceCount(clock, lastSlideshowUpdate,
                                      slideshowConfig.intervalMs)
            IN  /\ currentTime' = clock
                /\ intervalsElapsed' =
                      U32Val(U32Sub(clock, lastSlideshowUpdate))
                          \div slideshowConfig.intervalMs
                /\ IF slideshowConfig.randomOrder
                   THEN /\ displayRequest' = <<>>
                        /\ IF count > 0
                           THEN \E rnd \in 0..(count - 1) :
                                   /\ currentImageIndex' = rnd
                                   /\ currentIndex' = rnd
                                   /\ advances' = n
                           ELSE /\ UNCHANGED <<currentImageIndex, currentIndex>>
                                /\ advances' = 0
                   ELSE /\ UNCHANGED currentImageIndex
                        /\ IF systemInitialized /\ count > 0
                           THEN /\ currentIndex' =
                                      AdvanceTimes(currentIndex, count, n)
                                /\ advances' = n
                                /\ displayRequest' =
                                      DisplayCurrentImage(systemInitialized,
                                          initialized, imageList, currentIndex')
                           ELSE /\ UNCHANGED currentIndex
                                /\ advances' = 0
                                /\ displayRequest' = <<>>
                /\ lastSlideshowUpdate' = clock
                /\ slideshowActive' =
                      ~ShouldStop(slideshowConfig.loop, currentImageIndex', count)
                /\ Returns("updateSlideshow", FALSE, "fired")

\* SystemManager::initializeSystem with the init calls it makes: SD, LCD,
\* initWithDMA, the image browser, the WiFi configuration (which loads the
\* stored slideshow configuration and may auto-start the slideshow)
InitializeSystem(sdOk, lcdOk, heapOk, sdExists, listing, imagesDirOk, loaded, cfg) ==
    /\ UIFrame
    /\ advances' = 0
    /\ intervalsElapsed' = 0
    /\ displayRequest' = <<>>
    /\ currentTime' = [hi |-> 0, lo |-> 0]
    /\ UNCHANGED currentImageIndex
    /\ IF systemInitialized
       THEN /\ lastScan' = NoScan
            /\ UNCHANGED <<dmaVars, browserVars, sdInitialized, lcdInitialized,
                           systemInitialized, slideshowActive,
                           lastSlideshowUpdate, slideshowConfig>>
            /\ Returns("initializeSystem", TRUE, "already")
       ELSE IF ~(sdInitialized \/ sdOk)
       THEN /\ lastScan' = NoScan
            /\ UNCHANGED <<dmaVars, browserVars, sdInitialized, lcdInitialized,
                           systemInitialized, slideshowActive,
                           lastSlideshowUpdate, slideshowConfig>>
            /\ Returns("initializeSystem", FALSE, "sd_failed")
       ELSE IF ~(lcdInitialized \/ lcdOk)
       THEN /\ sdInitialized' = TRUE
            /\ lastScan' = NoScan
            /\ UNCHANGED <<dmaVars, browserVars, lcdInitialized,
                           systemInitialized, slideshowActive,
                           lastSlideshowUpdate, slideshowConfig>>
            /\ Returns("initializeSystem", FALSE, "lcd_failed")
       ELSE /\ sdInitialized' = TRUE
            /\ lcdInitialized' = TRUE
            /\ initialized' = TRUE
            /\ LET spiram == 8388608
                   internal == 300000
               IN  /\ HeapInputs(spiram, internal, heapOk, heapOk, heapOk)
                   /\ IF dmaEnabled
                      THEN UNCHANGED <<dmaEnabled, dmaBuffer, dmaBufferSize,
                                       heapBlock>>
                      ELSE LET target == TargetBufferSize(
                                             AvailableRAM(spiram, internal))
                               log == AllocAttempts(target, heapOk, heapOk, heapOk)
                               last == log[Len(log)]
                           IN  IF last.ok
                               THEN /\ dmaBuffer' = last.tier
                                    /\ heapBlock' = last.size
                                    /\ dmaBufferSize' = AllocatedSize(target, last)
                                    /\ dmaEnabled' = TRUE
                               ELSE /\ dmaBuffer' = "NULL"
                                    /\ heapBlock' = 0
                                    /\ dmaBufferSize' = target
                                    /\ dmaEnabled' = FALSE
            /\ IF browserInitialized \/ ~sdExists
               THEN UNCHANGED browserVars /\ lastScan' = NoScan
               ELSE /\ ScanSDCard(listing, imagesDirOk, TRUE)
                    /\ browserInitialized' = (imageList' # <<>>)
            /\ slideshowConfig' = IF loaded THEN cfg ELSE slideshowConfig
            /\ IF slideshowConfig'.autoStart /\ slideshowConfig'.enabled
               THEN /\ slideshowActive' = TRUE
                    /\ lastSlideshowUpdate' = clock
               ELSE UNCHANGED <<slideshowActive, lastSlideshowUpdate>>
            /\ systemInitialized' = TRUE
            /\ Returns("initializeSystem", TRUE, "initialized")

\* SystemManager::shutdownSystem
ShutdownSystem ==
    /\ UIFrame
    /\ lastScan' = NoScan
    /\ advances' = 0
    /\ intervalsElapsed' = 0
    /\ displayRequest' = <<>>
    /\ currentTime' = [hi |-> 0, lo |-> 0]
    /\ UNCHANGED <<browserVars, slideshowActive, lastSlideshowUpdate,
                   currentImageIndex, slideshowConfig>>
    /\ IF systemInitialized
       THEN /\ FreeDMAResources
            /\ initialized' = FALSE
            /\ lcdInitialized' = FALSE
            /\ sdInitialized' = FALSE
            /\ systemInitialized' = FALSE
            /\ Returns("shutdownSystem", FALSE, "shutdown")
       ELSE /\ UNCHANGED <<dmaVars, sdInitialized, lcdInitialized,
                           systemInitialized>>
            /\ Returns("shutdownSystem", FALSE, "nothing")

\* time passes between two calls of the main loop
ElapseTick(dt) ==
    /\ uptime + dt <= MaxTickUptime
    /\ Elapse(dt)

NextSlideshow ==
    \/ \E sdOk, lcdOk, heapOk, sdExists, imagesDirOk \in SlideInitOutcomes,
          loaded \in BOOLEAN, listing \in SlideListings, cfg \in StoredConfigs :
          InitializeSystem(sdOk, lcdOk, heapOk, sdExists, listing,
                           imagesDirOk, loaded, cfg)
    \/ ShutdownSystem
    \/ \E imagesDirOk \in BOOLEAN :
          \E rootOk \in RootOutcomes(imagesDirOk) :
             \E listing \in EnumerationsRead(TRUE, imagesDirOk, rootOk,
                                             SlideListings) :
                RefreshImageList(listing, imagesDirOk, rootOk)
    \/ SysNextImage
    \/ SysPreviousImage
    \/ StartSlideshow
    \/ StopSlideshow
    \/ PauseSlideshow
    \/ \E saveOk \in BOOLEAN : WifiStartSlideshow(saveOk)
    \/ \E saveOk \in BOOLEAN : WifiStopSlideshow(saveOk)
    \/ \E cfg \in Configs : SaveConfig(cfg)
    \/ UpdateSlideshow
    \/ \E dt \in TickDelays : ElapseTick(dt)

SpecSlideshow == Init /\ [][NextSlideshow]_vars

\* start-up and shutdown with every outcome of the component initializers
NextSystem ==
    \/ \E sdOk, lcdOk, heapOk, sdExists, imagesDirOk, loaded \in BOOLEAN,
          listing \in SlideListings, cfg \in StoredConfigs :
          InitializeSystem(sdOk, lcdOk, heapOk, sdExists, listing,
                           imagesDirOk, loaded, cfg)
    \/ ShutdownSystem
    \/ SysNextImage
    \/ StartSlideshow
    \/ StopSlideshow

SpecSystem == Init /\ [][NextSystem]_vars

\* loop() calls update(), and so updateSlideshow, again and again, and
\* millis() keeps advancing
SpecSlideshowLive ==
    /\ SpecSlideshow
    /\ WF_vars(UpdateSlideshow)
    /\ WF_vars(\E dt \in TickDelays : ElapseTick(dt))

(***************************************************************************)
(* Displaying the items of the index                                       *)
(***************************************************************************)
\* the card holds two raw frames and one PNG, whatever their sizes are
DisplayListings ==
    {<<[name |-> Name_B_raw, dir |-> FALSE], [name |-> Name_a_raw, dir |-> FALSE],
       [name |-> Name_c_PNG, dir |-> FALSE]>>}
DisplaySizes == {40960, FIXED_IMAGE_SIZE}

\* the suffixes displayImageDMA compares the path with
RawSuffix == <<46, 114, 97, 119>>
OtherFormatSuffixes ==
    {<<46, 112, 110, 103>>, <<46, 106, 112, 103>>, <<46, 98, 109, 112>>}

\* the branch displayImageDMA takes: String::endsWith compares bytes
FormatOf(path) ==
    IF EndsWith(path, RawSuffix) THEN "raw"
    ELSE IF \E sfx \in OtherFormatSuffixes : EndsWith(path, sfx) THEN "other"
    ELSE "unknown"

\* a return of a display operation that never reached displayFixedSizeImageDMA
NoTransfer(op, reason) ==
    /\ Returns(op, FALSE, reason)
    /\ ResetTrace
    /\ NoLocals
    /\ allocLog' = <<>>
    /\ UNCHANGED <<dmaVars, fileOpen, scratch, timeVars>>

\* DMAImageManager::displayImageDMA; displayPNGFromSD only returns false
DisplayImageDMA(path, size, openOk, lcdOk, mallocOk) ==
    IF ~initialized THEN NoTransfer("displayImageDMA", "not_initialized")
    ELSE IF FormatOf(path) = "other"
    THEN NoTransfer("displayImageDMA", "unsupported_format")
    ELSE DisplayFixedBody(size, Len(path) > 0, openOk, lcdOk, mallocOk)

\* the path of the display call that returned failure, or stopped at a
\* zero-byte read, just before
FailedBefore ==
    IF call \in {"fixed", "displayImageDMA"}
       /\ (~result \/ exitReason = "zero_read")
    THEN displayRequest
    ELSE <<>>

\* mutant: a display attempt ends the slideshow
DisplayAttemptStopsSlideshow ==
    /\ slideshowActive' = FALSE
    /\ UNCHANGED <<imageList, browserInitialized, sdInitialized, lcdInitialized,
                   systemInitialized, lastSlideshowUpdate, currentImageIndex,
                   slideshowConfig>>

\* displayImage and displayCurrentImage assign no member of the system
\* manager, of the browser or of the configuration
DisplayAttemptFrame ==
    UNCHANGED <<imageList, browserInitialized, sysVars, slideshowConfig>>

\* SystemManager::displayCurrentImage, with displayImage, up to the first
\* loop test of the transfer
DisplayAttempt(index, size, openOk, lcdOk, mallocOk) ==
    LET path == DisplayCurrentImage(systemInitialized, initialized, imageList,
                                    index)
    IN  /\ DisplayAttemptFrame
        /\ displayRequest' = path
        /\ failedRequest' = FailedBefore
        /\ lastScan' = NoScan
        /\ intervalsElapsed' = 0
        /\ currentTime' = [hi |-> 0, lo |-> 0]
        /\ IF path = <<>> THEN NoTransfer("displayCurrentImage", "nothing")
           ELSE DisplayImageDMA(path, size, openOk, lcdOk, mallocOk)

\* SystemManager::displayCurrentImage
SysDisplayCurrentImage(size, openOk, lcdOk, mallocOk) ==
    /\ pc = "idle"
    /\ UNCHANGED currentIndex
    /\ advances' = 0
    /\ DisplayAttempt(currentIndex, size, openOk, lcdOk, mallocOk)

\* SystemManager::nextImage with the transfer displayCurrentImage starts
SysNextImageTransfer(size, openOk, lcdOk, mallocOk) ==
    /\ pc = "idle"
    /\ IF systemInitialized /\ imageList # <<>>
       THEN /\ currentIndex' = NextIndex(currentIndex, Len(imageList))
            /\ advances' = 1
            /\ DisplayAttempt(currentIndex', size, openOk, lcdOk, mallocOk)
       ELSE /\ UNCHANGED currentIndex
            /\ advances' = 0
            /\ DisplayAttemptFrame
            /\ displayRequest' = <<>>
            /\ failedRequest' = FailedBefore
            /\ lastScan' = NoScan
            /\ intervalsElapsed' = 0
            /\ currentTime' = [hi |-> 0, lo |-> 0]
            /\ NoTransfer("sysNextImage", "nothing")

NextDisplay ==
    \/ \E heapOk, loaded \in BOOLEAN, listing \in DisplayListings,
          cfg \in StoredConfigs :
          InitializeSystem(TRUE, TRUE, heapOk, TRUE, listing, TRUE, loaded, cfg)
    \/ StartSlideshow
    \/ PauseSlideshow
    \/ \E size \in DisplaySizes, openOk, lcdOk, mallocOk \in BOOLEAN :
          SysDisplayCurrentImage(size, openOk, lcdOk, mallocOk)
    \/ \E size \in DisplaySizes, openOk, lcdOk, mallocOk \in BOOLEAN :
          SysNextImageTransfer(size, openOk, lcdOk, mallocOk)
    \/ FixedDMAStep
    \/ FixedCPUStep

SpecDisplay == Init /\ [][NextDisplay]_vars

TickFired == call = "updateSlideshow" /\ exitReason = "fired"

\* C4: one updateSlideshow call moves the selection at most once, however
\* many intervals have elapsed, and a tick that fires leaves
\* lastSlideshowUpdate at the time it sampled, so that a tick made at that
\* same time does not fire again
C4_OneAdvancePerTick ==
    /\ call = "updateSlideshow" => advances <= 1
    /\ TickFired =>
          /\ lastSlideshowUpdate = currentTime
          /\ ~TickDue(currentTime, lastSlideshowUpdate, slideshowConfig.intervalMs)

C4_Witness ==
    /\ TickFired
    /\ intervalsElapsed >= 3
    /\ ~slideshowConfig.randomOrder
    /\ advances = 1
    /\ currentIndex = 1

\* C5: with loop off and sequential order, the tick whose advance brings
\* the cursor to the last index leaves the slideshow stopped, and a tick
\* whose advance leaves the cursor before the last index leaves it running
C5_StopsAtLastIndex ==
    (/\ TickFired
     /\ ~slideshowConfig.loop
     /\ ~slideshowConfig.randomOrder
     /\ advances = 1) =>
        (slideshowActive <=> currentIndex < Len(imageList) - 1)

\* a step that is a start() call, by either entry point
StartCalled == StartSlideshow \/ \E saveOk \in BOOLEAN : WifiStartSlideshow(saveOk)

\* C12: a start() made while the configuration has enabled = FALSE returns
\* false and changes neither the mode, nor lastSlideshowUpdate, nor the
\* configuration; with enabled = TRUE it leaves the slideshow running with
\* lastSlideshowUpdate = now
C12_StartRejectedWhenDisabled ==
    [][StartCalled =>
          IF ~slideshowConfig.enabled
          THEN /\ result' = FALSE
               /\ UNCHANGED <<slideshowActive, lastSlideshowUpdate,
                              slideshowConfig>>
          ELSE (result' = TRUE) =>
                  (slideshowActive' /\ lastSlideshowUpdate' = clock)]_vars

\* C13: an updateSlideshow call made while the slideshow is not running
\* changes neither the browser cursor, nor lastSlideshowUpdate, nor the mode,
\* and displays nothing, whatever time has elapsed
C13_InactiveTickIsNoOp ==
    [][(UpdateSlideshow /\ ~slideshowActive) =>
          /\ UNCHANGED <<browserVars, sysVars, slideshowConfig, dmaVars>>
          /\ displayRequest' = <<>>
          /\ advances' = 0]_vars

C13_Witness ==
    /\ call = "updateSlideshow"
    /\ exitReason = "inactive"
    /\ ~slideshowActive
    /\ slideshowConfig.enabled
    /\ systemInitialized
    /\ Len(imageList) = 3
    /\ TickDue(clock, lastSlideshowUpdate, slideshowConfig.intervalMs)

(***************************************************************************)
(* Properties of the image browser                                         *)
(***************************************************************************)
\* C14: on a non-empty list of length N nextImage sets the cursor to
\* (cursor + 1) mod N and previousImage to (cursor - 1) mod N and both return
\* true; on an empty list both return false and leave the cursor unchanged
C14_NavigationWraps ==
    [][/\ NextImage =>
            IF imageList # <<>>
            THEN /\ result' = TRUE
                 /\ currentIndex' =
                       (IF currentIndex = Len(imageList) - 1 THEN 0
                        ELSE currentIndex + 1)
            ELSE result' = FALSE /\ UNCHANGED currentIndex
       /\ PreviousImage =>
            IF imageList # <<>>
            THEN /\ result' = TRUE
                 /\ currentIndex' =
                       (IF currentIndex = 0 THEN Len(imageList) - 1
                        ELSE currentIndex - 1)
            ELSE result' = FALSE /\ UNCHANGED currentIndex]_vars

C14_Witness ==
    /\ call = "nextImage"
    /\ result = TRUE
    /\ Len(imageList) = 3
    /\ currentIndex = 0
    /\ advances = 1

\* C15: for every valid cursor i of a non-empty list, previousImage after
\* nextImage and nextImage after previousImage both give back i
C15_NextPreviousInverse ==
    imageList # <<>> =>
        LET n == Len(imageList)
        IN  /\ PreviousIndex(NextIndex(currentIndex, n), n) = currentIndex
            /\ NextIndex(PreviousIndex(currentIndex, n), n) = currentIndex

C15_Witness ==
    /\ call = "previousImage"
    /\ result = TRUE
    /\ Len(imageList) = 3
    /\ currentIndex = 2

\* C16: goToIndex(i) returns true and sets the cursor to i exactly when the
\* list is non-empty and 0 <= i < N; otherwise it returns false and leaves
\* the cursor unchanged
C16_GoToIndexChecked ==
    [][\A i \in -1..(MaxEntries + 1) :
          GoToIndex(i) =>
             IF imageList # <<>> /\ 0 <= i /\ i < Len(imageList)
             THEN result' = TRUE /\ currentIndex' = i
             ELSE result' = FALSE /\ UNCHANGED currentIndex]_vars

C16_Witness ==
    /\ call = "goToIndex"
    /\ result = TRUE
    /\ Len(imageList) = 3
    /\ currentIndex = 2

\* C17: getCurrentImagePath returns the empty string when there is no
\* selection and the entry at the cursor otherwise, and never reads the list
\* outside 0..N-1
C17_PathOrEmpty ==
    /\ GetCurrentImagePath # OutOfRangeRead
    /\ IF imageList = <<>> \/ currentIndex < 0 \/ currentIndex >= Len(imageList)
       THEN GetCurrentImagePath = <<>>
       ELSE GetCurrentImagePath = imageList[currentIndex + 1]

C17_Witness ==
    /\ call = "refreshImageList"
    /\ exitReason = "open_failed"
    /\ imageList = <<>>
    /\ currentIndex = 2
    /\ GetCurrentImagePath = <<>>

\* a scan of the operation that opened a directory
ScanRan == lastScan.ran /\ (lastScan.imagesDirOk \/ lastScan.rootOk)

ScanPrefix == IF lastScan.imagesDirOk THEN ImagesPrefix ELSE RootPrefix

\* a character without its case, and a name without its case
LowerChar(c) == IF c >= 65 /\ c <= 90 THEN c + 32 ELSE c
LowerName(name) == [i \in 1..Len(name) |-> LowerChar(name[i])]

\* the name ends in .png, .jpg, .jpeg, .bmp or .raw, in any case
SupportedName(name) ==
    \E ext \in ImageExtensions :
        /\ Len(name) >= Len(ext)
        /\ \A k \in 1..Len(ext) :
              LowerChar(name[Len(name) - Len(ext) + k]) = ext[k]

\* the paths of the supported non-directory entries of an enumeration
SupportedPaths(listing, prefix) ==
    {prefix \o listing[i].name :
        i \in {k \in 1..Len(listing) :
                  ~listing[k].dir /\ SupportedName(listing[k].name)}}

IndexIsExactly(paths) ==
    /\ {imageList[k] : k \in 1..Len(imageList)} = paths
    /\ Len(imageList) = Cardinality(paths)

\* C18 as stated: after a scan of a directory with N supported files and M
\* other entries the index holds exactly the N supported files, each once
C18_IndexIsSupportedFiles ==
    ScanRan => IndexIsExactly(SupportedPaths(lastScan.listing, ScanPrefix))

\* C18 as amended: the same for a directory of at most 5000 entries, the
\* number of entries one scan visits
C18_IndexIsSupportedFilesWithinCap ==
    (ScanRan /\ Len(lastScan.listing) <= MAX_FILES) =>
        IndexIsExactly(SupportedPaths(lastScan.listing, ScanPrefix))

C18_Witness ==
    /\ ScanRan
    /\ Len(lastScan.listing) = 3
    /\ Len(imageList) = 2
    /\ \E i \in 1..3 : lastScan.listing[i].name = Name_d_txt
    /\ \E k \in 1..2 : imageList[k] = ImagesPrefix \o Name_c_PNG

\* C19: the index is sorted without regard to case: of two adjacent
\* entries p, q the lower-cased q is not before the lower-cased p
C19_SortedIgnoringCase ==
    \A k \in 1..(Len(imageList) - 1) :
        ~StrLess(LowerName(imageList[k + 1]), LowerName(imageList[k]))

\* the enumeration orders compared with the one the scan saw: every order
\* of a short directory, the reverse order of a long one
Reverse(l) == [i \in 1..Len(l) |-> l[Len(l) + 1 - i]]
Reorderings(l) ==
    IF Len(l) > MaxEntries + 1 THEN {Reverse(l)}
    ELSE {[i \in 1..Len(l) |-> l[p[i]]] :
             p \in {q \in [1..Len(l) -> 1..Len(l)] :
                       \A i, j \in 1..Len(l) : i # j => q[i] # q[j]}}

SameIndexInEveryOrder ==
    \A other \in Reorderings(lastScan.listing) :
        /\ ScannedList(other, lastScan.imagesDirOk) = imageList
        /\ ScanCursor(ScannedList(other, lastScan.imagesDirOk)) = currentIndex

\* C20 as stated: a scan of the same files enumerated in another order
\* gives the same index and the same cursor
C20_OrderIndependent == ScanRan => SameIndexInEveryOrder

\* C20 as amended: the same for a directory of at most 5000 entries
C20_OrderIndependentWithinCap ==
    (ScanRan /\ Len(lastScan.listing) <= MAX_FILES) => SameIndexInEveryOrder

C20_Witness ==
    /\ ScanRan
    /\ Len(lastScan.listing) = 3
    /\ lastScan.listing[1].name = Name_c_PNG
    /\ Len(imageList) = 3
    /\ imageList[1] = ImagesPrefix \o Name_B_raw
    /\ currentIndex = 0

\* C21: after a rescan the index holds only entries of the enumeration the
\* scan saw, and the cursor is 0 for a non-empty index and -1 for an empty
\* one, whatever the index and the cursor were before
C21_RescanReplacesIndex ==
    lastScan.ran =>
        /\ \A k \in 1..Len(imageList) :
              \E i \in 1..Len(lastScan.listing) :
                  imageList[k] = ScanPrefix \o lastScan.listing[i].name
        /\ currentIndex = (IF imageList # <<>> THEN 0 ELSE -1)

\* C24: the first allocation request is max(min(1,228,800, available / 4),
\* 20,480) bytes, which is 50,000 bytes when 200,000 bytes are available, and
\* when it fails the next request is 102,400 bytes of internal RAM
C24_FirstRequestSize ==
    [][(call' = "enableDMA" /\ allocLog' # <<>>) =>
       \A spiram \in SpiramFree, internal \in InternalFree, ok1, ok2, ok3 \in BOOLEAN :
          EnableDMA(spiram, internal, ok1, ok2, ok3) =>
              LET available == IF spiram = 0 THEN internal ELSE spiram
                  quarter == available \div 4
                  capped == IF quarter < 1228800 THEN quarter ELSE 1228800
                  request == IF capped > 1024 * 10 * 2 THEN capped
                             ELSE 1024 * 10 * 2
              IN  /\ allocLog'[1].size = request
                  /\ available = 200000 => allocLog'[1].size = 50000
                  /\ ~allocLog'[1].ok =>
                        /\ Len(allocLog') >= 2
                        /\ allocLog'[2].size = 102400
                        /\ allocLog'[2].tier = "INTERNAL"]_vars

C24_Witness ==
    /\ call = "enableDMA"
    /\ Len(allocLog) >= 2
    /\ allocLog[1].size = 50000
    /\ ~allocLog[1].ok
    /\ allocLog[2].size = 102400
    /\ allocLog[2].tier = "INTERNAL"

\* C25: a call on the unbuffered path whose 30 s timeout expired before the
\* whole frame was read returns failure
C25_TimeoutReturnsFailure ==
    (FixedCallReturned /\ exitReason = "timeout"
        /\ totalBytesRead < FIXED_IMAGE_SIZE) => result = FALSE

\* C26: the unbuffered loop makes at most expectedBytes / 4096 iterations plus
\* a safety margin (the 2 of the streamed path), whatever the reads return
C26_UnbufferedIterationCap ==
    (call = "fixed" /\ ~(dmaEnabled /\ dmaBuffer # "NULL")) =>
        reads <= FIXED_IMAGE_SIZE \div CPU_BUFFER_SIZE + 2

InFixedLoop == pc \in {"fixed_dma", "fixed_cpu"}

\* C27: a fixed-size call that entered a transfer loop returns: every
\* iteration that stays in the loop transfers at least one byte of at most
\* 1,228,800, and the loop is left only by the loop's own step, on completion,
\* on a zero-byte read or on the expired timeout
C27_FixedCallReturns ==
    /\ InFixedLoop ~> (pc = "idle")
    /\ [](InFixedLoop => totalBytesRead < FIXED_IMAGE_SIZE)
    /\ [][(InFixedLoop /\ pc' = pc /\ reads' # reads) =>
             totalBytesRead' > totalBytesRead]_vars
    /\ [][(InFixedLoop /\ pc' # pc) =>
             /\ pc' = "idle"
             /\ call' = "fixed"
             /\ \/ /\ exitReason' = "complete"
                   /\ totalBytesRead' = FIXED_IMAGE_SIZE
                \/ /\ exitReason' = "zero_read"
                   /\ reads' = reads + 1
                   /\ filePos' = filePos
                \/ /\ exitReason' = "timeout"
                   /\ pc = "fixed_cpu"
                   /\ U32Val(U32Sub(clock, startTime)) > 30000]_vars

C27_Witness ==
    /\ FixedCallReturned
    /\ ~dmaEnabled
    /\ exitReason = "complete"
    /\ shortReads > 0
    /\ reads > FIXED_IMAGE_SIZE \div CPU_BUFFER_SIZE

\* C28: in a fixed-size transfer no more than 64 KiB plus one chunk are
\* transferred before the first yield and between two yields, the chunk being
\* the buffer capacity on the buffered path and 4 KiB on the unbuffered one
C28_YieldCadence ==
    call = "fixed" =>
        LET chunk == IF dmaEnabled /\ dmaBuffer # "NULL"
                     THEN Min(dmaBufferSize, FIXED_IMAGE_SIZE)
                     ELSE CPU_BUFFER_SIZE
        IN  totalBytesRead - lastYieldAt <= 64 * 1024 + chunk

StreamLoopEntered ==
    /\ call = "streamed"
    /\ exitReason \notin {"dma_disabled", "open_failed", "no_lcd"}

\* C29: displayRAWRGB565DMA makes at most totalSize / capacity + 2 loop
\* iterations, returns success exactly when the bytes transferred equal the
\* size of the file, and returns failure when the iteration cap ended the loop
C29_StreamedIterationCap ==
    StreamLoopEntered =>
        /\ reads <= fileSize \div dmaBufferSize + 2
        /\ currentIteration <= fileSize \div dmaBufferSize + 2
        /\ pc = "idle" =>
              /\ result = (totalBytesRead = fileSize)
              /\ exitReason = "iteration_limit" =>
                    /\ result = FALSE
                    /\ totalBytesRead < fileSize

C29_Witness ==
    /\ StreamLoopEntered
    /\ pc = "idle"
    /\ exitReason = "iteration_limit"
    /\ reads = fileSize \div dmaBufferSize + 2
    /\ totalBytesRead < fileSize
    /\ result = FALSE

DisplayCalls == {"fixed", "displayImageDMA", "displayCurrentImage", "sysNextImage"}

\* C22: a display attempt, failed or not, changes neither the list nor the
\* cursor nor the slideshow mode nor the time of the last tick (nextImage moves
\* the cursor before its attempt starts) and holds no file or scratch buffer
\* once it returned; and a display of another item made right after a failed
\* one succeeds with the whole frame when that item has the frame's size and
\* its own attempt meets none of the failure causes
C22_FailedDisplayIsolated ==
    /\ [][call' \in DisplayCalls =>
             UNCHANGED <<imageList, slideshowActive, lastSlideshowUpdate,
                         slideshowConfig>>]_vars
    /\ [][(call' \in DisplayCalls /\ (pc # "idle" \/ advances' = 0)) =>
             UNCHANGED currentIndex]_vars
    /\ []((pc = "idle" /\ call \in DisplayCalls) => (~fileOpen /\ ~scratch))
    /\ []((/\ pc = "idle"
           /\ call = "fixed"
           /\ failedRequest # <<>>
           /\ displayRequest # failedRequest
           /\ fileSize = FIXED_IMAGE_SIZE
           /\ exitReason \notin {"open_failed", "no_lcd", "no_cpu_buffer",
                                 "zero_read", "timeout"}) =>
              (result = TRUE /\ totalBytesRead = FIXED_IMAGE_SIZE /\ blits > 0))

C22_Witness ==
    /\ pc = "idle"
    /\ call = "fixed"
    /\ failedRequest # <<>>
    /\ displayRequest # failedRequest
    /\ result = TRUE
    /\ totalBytesRead = FIXED_IMAGE_SIZE
    /\ ~dmaEnabled
    /\ slideshowActive
    /\ currentIndex = 1

\* the path ends in .png, .jpg, .jpeg or .bmp, in any letter case
UnsupportedFormatSuffixes ==
    {<<46, 112, 110, 103>>, <<46, 106, 112, 103>>, <<46, 106, 112, 101, 103>>,
     <<46, 98, 109, 112>>}
UnsupportedPath(path) ==
    \E sfx \in UnsupportedFormatSuffixes : EndsWith(LowerName(path), sfx)

\* C23: the display of a listed item whose extension is .png, .jpg, .jpeg or
\* .bmp in any letter case draws nothing and returns failure, whatever the
\* size of the file
C23_UnsupportedRejected ==
    (call \in DisplayCalls /\ displayRequest # <<>>
        /\ UnsupportedPath(displayRequest)
        /\ \E k \in 1..Len(imageList) : imageList[k] = displayRequest) =>
        /\ blits = 0
        /\ pc = "idle" => result = FALSE

DmaDisplayCalls == {"fixed", "streamed"}

\* C30: no step of a display operation changes dmaBuffer, dmaBufferSize or
\* dmaEnabled; enableDMA called while enabled leaves them unchanged; a buffer
\* that stays held keeps its tier and its size; and the buffer is released
\* only by disableDMA and deinit
C30_BufferStableWhileHeld ==
    [][/\ call' \in DmaDisplayCalls =>
             UNCHANGED <<dmaBuffer, dmaBufferSize, dmaEnabled, heapBlock>>
       /\ (dmaEnabled /\ call' = "enableDMA") =>
             (result' = TRUE /\
              UNCHANGED <<dmaBuffer, dmaBufferSize, dmaEnabled, heapBlock>>)
       /\ (dmaEnabled /\ dmaEnabled') =>
             UNCHANGED <<dmaBuffer, dmaBufferSize, heapBlock>>
       /\ (dmaBuffer # "NULL" /\ dmaBuffer' # dmaBuffer) =>
             (dmaBuffer' = "NULL" /\ call' \in {"disableDMA", "deinit"})]_vars

C30_Witness ==
    /\ call = "enableDMA"
    /\ allocLog = <<>>
    /\ result = TRUE
    /\ dmaEnabled
    /\ dmaBufferSize = FALLBACK_BUFFER_BYTES

\* C31: a tick that fired with the system initialized and a non-empty index
\* has handed the item it selected to displayImage, in random order as well as
\* in sequence
C31_FiredTickDisplays ==
    (TickFired /\ systemInitialized /\ imageList # <<>>) =>
        /\ displayRequest # <<>>
        /\ displayRequest = PathAt(imageList, currentIndex)

\* C32: pauseSlideshow called while the slideshow runs leaves the program in
\* a state that differs from the one stopSlideshow would leave (stopSlideshow
\* clears slideshowActive and assigns nothing else)
C32_PausedDistinctFromStopped ==
    [][(slideshowActive /\ call' = "pauseSlideshow") =>
          ~(/\ slideshowActive' = FALSE
            /\ UNCHANGED <<lastSlideshowUpdate, currentImageIndex,
                           slideshowConfig, browserVars, sdInitialized,
                           lcdInitialized, systemInitialized, dmaVars>>)]_vars

\* C33: a configuration save moves neither the cursor nor lastSlideshowUpdate
\* nor the mode and displays nothing; the first tick after it, if the
\* slideshow runs, fires exactly when the time elapsed since
\* lastSlideshowUpdate is at least the saved intervalMs, and advances the
\* cursor at most once
C33_IntervalChangeIsLazy ==
    /\ [][call' = "saveConfig" =>
             /\ UNCHANGED <<lastSlideshowUpdate, currentIndex, currentImageIndex,
                            slideshowActive, imageList>>
             /\ advances' = 0
             /\ displayRequest' = <<>>]_vars
    /\ [][(call = "saveConfig" /\ call' = "updateSlideshow" /\ slideshowActive) =>
             /\ (exitReason' = "fired") =
                   (U32Val(U32Sub(clock, lastSlideshowUpdate))
                       >= slideshowConfig.intervalMs)
             /\ advances' <= 1
             /\ exitReason' # "fired" =>
                   UNCHANGED <<currentIndex, lastSlideshowUpdate>>]_vars

C33_Witness ==
    /\ call = "saveConfig"
    /\ slideshowActive
    /\ systemInitialized
    /\ Len(imageList) >= 2
    /\ slideshowConfig.intervalMs = 1000
    /\ U32Val(U32Sub(clock, lastSlideshowUpdate)) = 3000

SequentialRun ==
    /\ slideshowActive
    /\ ~slideshowConfig.randomOrder
    /\ systemInitialized
    /\ Len(imageList) >= 2

\* C35: while the slideshow runs in sequence over two or more images, a tick
\* called when at least intervalMs passed since lastSlideshowUpdate changes
\* the cursor; and after a tick that was not yet due, with the ticks repeated
\* and time advancing, the cursor advances unless another call intervenes
C35_CursorEventuallyAdvances ==
    /\ [][(call' = "updateSlideshow" /\ SequentialRun
            /\ U32Val(U32Sub(clock, lastSlideshowUpdate))
                  >= slideshowConfig.intervalMs) =>
             (exitReason' = "fired" /\ currentIndex' # currentIndex)]_vars
    /\ (/\ call = "updateSlideshow"
        /\ exitReason = "not_due"
        /\ SequentialRun
        /\ slideshowConfig.intervalMs <= 3000
        /\ uptime = 0)
          ~> \/ call # "updateSlideshow"
             \/ exitReason = "fired" /\ advances = 1

C35_Witness ==
    /\ call = "updateSlideshow"
    /\ exitReason = "fired"
    /\ advances = 1
    /\ ~slideshowConfig.randomOrder
    /\ Len(imageList) >= 2
    /\ currentIndex = 1
    /\ uptime = 3000

C35_NotYetDue ==
    /\ call = "updateSlideshow"
    /\ exitReason = "not_due"
    /\ SequentialRun
    /\ slideshowConfig.intervalMs <= 3000
    /\ uptime = 0

\* the times that can have passed since lastSlideshowUpdate was taken
C36_ElapsedCandidates == {uptime - t : t \in {0} \cup {d \in TickDelays : d <= uptime}}

\* C36: a tick of the running slideshow fires exactly when the time that
\* really passed since lastSlideshowUpdate is at least intervalMs, also when
\* millis() wrapped from 2^32 - 1 to 0 in between
C36_WrapSafeInterval ==
    [][(call' = "updateSlideshow" /\ slideshowActive) =>
          \A e \in C36_ElapsedCandidates :
             U32Add(lastSlideshowUpdate, e) = clock =>
                (exitReason' = "fired") = (e >= slideshowConfig.intervalMs)]_vars

C36_Witness ==
    /\ TickFired
    /\ uptime = 3000
    /\ clock.hi = 0
    /\ clock.lo < 3000
    /\ lastSlideshowUpdate = clock
    /\ intervalsElapsed = 3

\* C37: dmaBufferSize is nonzero only while a DMA buffer is held, so an
\* enableDMA whose three attempts all failed leaves dmaBufferSize = 0 with a
\* null dmaBuffer and dmaEnabled false; and dmaBuffer is non-null exactly
\* when dmaEnabled
C37_SizeOnlyWhileHeld ==
    /\ dmaBufferSize # 0 => dmaBuffer # "NULL"
    /\ (call = "enableDMA" /\ ~result) =>
          (dmaBufferSize = 0 /\ dmaBuffer = "NULL" /\ ~dmaEnabled)
    /\ (dmaBuffer # "NULL") = dmaEnabled

C37_BufferIffEnabled == (dmaBuffer # "NULL") = dmaEnabled

\* C38: when initializeSystem returns false because a later component
\* failed, no manager is left initialized while systemInitialized is false
C38_FailedInitRollsBack ==
    (call = "initializeSystem" /\ ~result /\ ~systemInitialized) =>
        (~sdInitialized /\ ~lcdInitialized /\ ~initialized)

\* C39: whenever the slideshow is running, the stored configuration has
\* enabled = true
C39_RunningImpliesEnabled == slideshowActive => slideshowConfig.enabled

\* C40: once displayFixedSizeImageDMA or displayRAWRGB565DMA has returned, by
\* whichever path, the image file is closed and the 4 KiB scratch buffer of
\* the unbuffered path is freed; they are held only while a loop is running
C40_NoLeakAfterDisplay ==
    /\ pc = "idle" => (~fileOpen /\ ~scratch)
    /\ scratch => (pc = "fixed_cpu" /\ fileOpen)
    /\ fileOpen => pc \in {"fixed_dma", "fixed_cpu", "streamed"}

C40_Witness ==
    /\ pc = "idle"
    /\ call = "fixed"
    /\ exitReason = "timeout"
    /\ ~dmaEnabled
    /\ totalBytesRead > 0
    /\ ~fileOpen
    /\ ~scratch


====
